---- MODULE Spec2Model ----
(***************************************************************************)
(* GardenPlanner (src/main.ts): the state of the planner object, the three *)
(* canvas mouse handlers, the toolbar operations and the asynchronous file *)
(* load.  Canvas pixels are not modelled; a redraw is modelled only by     *)
(* whether it throws.  The program writes localStorage and never reads it, *)
(* so the stored item is not a variable: savedText is the text a save      *)
(* writes in the current state.                                            *)
(***************************************************************************)
EXTENDS Integers, Sequences, FiniteSets, TLC

VARIABLES gardenPath, plants, pots, currentLineStart, currentTool,
          readers, lockCalled, position

vars == <<gardenPath, plants, pots, currentLineStart, currentTool,
          readers, lockCalled, position>>

(* ---------------------------- bounds ----------------------------------- *)
MaxPath == 3
MaxPlants == 1
MaxPots == 1
MaxReaders == 1
SnapRange == 30

(* ------------------------- program constants --------------------------- *)
gridSize == 20

(* ------------------------- values of the language ---------------------- *)
\* JavaScript's undefined, as the value of a collection field.
Undefined == <<[undefined |-> TRUE]>>
\* JavaScript's null, as the value of currentLineStart.
Null == [null |-> TRUE]

Point(px, py) == [x |-> px, y |-> py]

\* Pointer positions delivered by the mouse events (getMousePosition).
MousePositions == {Point(10, 10), Point(47, 28)}

\* Tools the toolbar passes to setMode.
Tools == {"draw", "plant", "pot"}

(* ------------------------- JSON texts ---------------------------------- *)
\* A JSON text is either an object, given by its members, or unparseable.
JSONObject(members) == [kind |-> "object", members |-> members]
Malformed == [kind |-> "malformed", members |-> <<>>]

FilePath == <<Point(0, 0), Point(60, 0), Point(0, 60)>>
FilePlants == <<[x |-> 12, y |-> 15, type |-> "Tulip", waterNeeds |-> "low",
                 sunlight |-> "full", spacing |-> 30]>>
FilePots == <<Point(20, 20)>>

\* The files the user can select in the file input.
FileFull == JSONObject([gardenPath |-> FilePath, plants |-> FilePlants,
                        pots |-> FilePots])
FileNoPlants == JSONObject([gardenPath |-> FilePath, pots |-> FilePots])
FilePotsOnly == JSONObject([pots |-> <<>>])
Files == {FileFull, FileNoPlants, FilePotsOnly, Malformed}

\* JSON.stringify of an object: a member whose value is undefined is omitted.
JSONstringify(obj) ==
    LET keys == {k \in DOMAIN obj : obj[k] # Undefined}
    IN  JSONObject([k \in keys |-> obj[k]])

\* Property access on the result of JSON.parse: an absent key reads undefined.
Get(json, key) ==
    IF key \in DOMAIN json.members THEN json.members[key] ELSE Undefined

(* ------------------------- pure functions ------------------------------ *)
\* A rounding that takes the floor of the quotient instead of the nearest.
MathFloorDiv(c, d) == c \div d

\* Math.round(c / gridSize): the nearest integer, a tie going to +infinity.
MathRoundDiv(c, d) == (2 * c + d) \div (2 * d)

snapCoord(c) == MathRoundDiv(c, gridSize) * gridSize

snapToGrid(pos) == Point(snapCoord(pos.x), snapCoord(pos.y))

\* A serialised object that names the boundary by another key.
gardenDataBoundaryKey(gp, pl, po) ==
    [boundary |-> gp, plants |-> pl, pots |-> po]

\* The object saveGarden serialises.
gardenData(gp, pl, po) == [gardenPath |-> gp, plants |-> pl, pots |-> po]

\* redraw() throws a TypeError when it reads .length or .forEach of undefined.
RedrawThrows(gp, pl, po) == gp = Undefined \/ pl = Undefined \/ po = Undefined

(* ------------------------- initial state ------------------------------- *)
Init ==
    /\ gardenPath = <<>>
    /\ plants = <<>>
    /\ pots = <<>>
    /\ currentLineStart = Null
    /\ currentTool = "draw"
    /\ readers = <<>>
    /\ lockCalled = FALSE
    /\ position = Point(0, 0)

(* ------------------------- operations ---------------------------------- *)
\* addPlant: push on undefined throws before anything changes.
addPlant(px, py, type) ==
    /\ plants' = IF plants = Undefined THEN plants
                 ELSE Append(plants, [x |-> px, y |-> py, type |-> type])
    /\ UNCHANGED <<gardenPath, pots, currentLineStart>>

addPot(px, py) ==
    /\ pots' = IF pots = Undefined THEN pots ELSE Append(pots, Point(px, py))
    /\ UNCHANGED <<gardenPath, plants, currentLineStart>>

\* A mousedown that pushes the raw position, not the snapped line start.
startDrawingPushRaw(mousePos) ==
    /\ \/ /\ currentTool = "draw"
          /\ gardenPath # Undefined => Len(gardenPath) < MaxPath
          /\ currentLineStart' = snapToGrid(mousePos)
          /\ gardenPath' = IF gardenPath = Undefined THEN gardenPath
                           ELSE Append(gardenPath, mousePos)
          /\ UNCHANGED <<plants, pots>>
       \/ /\ currentTool = "plant"
          /\ plants # Undefined => Len(plants) < MaxPlants
          /\ addPlant(mousePos.x, mousePos.y, "Rose")
       \/ /\ currentTool = "pot"
          /\ pots # Undefined => Len(pots) < MaxPots
          /\ addPot(mousePos.x, mousePos.y)
       \/ /\ currentTool \notin {"draw", "plant", "pot"}
          /\ UNCHANGED <<gardenPath, plants, pots, currentLineStart>>
    /\ UNCHANGED <<currentTool, readers, lockCalled, position>>

\* mousedown.  In draw mode currentLineStart is assigned before the push, so
\* it is set even when the push throws on an undefined gardenPath.
startDrawing(mousePos) ==
    /\ \/ /\ currentTool = "draw"
          /\ gardenPath # Undefined => Len(gardenPath) < MaxPath
          /\ currentLineStart' = snapToGrid(mousePos)
          /\ gardenPath' = IF gardenPath = Undefined THEN gardenPath
                           ELSE Append(gardenPath, snapToGrid(mousePos))
          /\ UNCHANGED <<plants, pots>>
       \/ /\ currentTool = "plant"
          /\ plants # Undefined => Len(plants) < MaxPlants
          /\ addPlant(mousePos.x, mousePos.y, "Rose")
       \/ /\ currentTool = "pot"
          /\ pots # Undefined => Len(pots) < MaxPots
          /\ addPot(mousePos.x, mousePos.y)
       \/ /\ currentTool \notin {"draw", "plant", "pot"}
          /\ UNCHANGED <<gardenPath, plants, pots, currentLineStart>>
    /\ UNCHANGED <<currentTool, readers, lockCalled, position>>

\* mousemove: only the canvas is touched.
draw(mousePos) ==
    /\ UNCHANGED vars

\* A mouseup that pushes the raw release position.
stopDrawingRaw(mousePos) ==
    /\ IF currentLineStart = Null \/ gardenPath = Undefined
       THEN UNCHANGED <<gardenPath, currentLineStart>>
       ELSE /\ Len(gardenPath) < MaxPath
            /\ gardenPath' = Append(gardenPath, mousePos)
            /\ currentLineStart' = Null
    /\ UNCHANGED <<plants, pots, currentTool, readers, lockCalled,
                   position>>

\* A mouseup that overwrites the last boundary point instead of pushing.
stopDrawingOverwrite(mousePos) ==
    /\ IF currentLineStart = Null \/ gardenPath = Undefined
       THEN UNCHANGED <<gardenPath, currentLineStart>>
       ELSE /\ gardenPath' = IF gardenPath = <<>>
                             THEN <<snapToGrid(mousePos)>>
                             ELSE [gardenPath EXCEPT ![Len(gardenPath)] =
                                       snapToGrid(mousePos)]
            /\ currentLineStart' = Null
    /\ UNCHANGED <<plants, pots, currentTool, readers, lockCalled,
                   position>>

\* mouseup.  The push comes before the reset of currentLineStart, so a push
\* that throws leaves currentLineStart set.
stopDrawing(mousePos) ==
    /\ IF currentLineStart = Null
       THEN UNCHANGED <<gardenPath, currentLineStart>>
       ELSE IF gardenPath = Undefined
            THEN UNCHANGED <<gardenPath, currentLineStart>>
            ELSE /\ Len(gardenPath) < MaxPath
                 /\ gardenPath' = Append(gardenPath, snapToGrid(mousePos))
                 /\ currentLineStart' = Null
    /\ UNCHANGED <<plants, pots, currentTool, readers, lockCalled,
                   position>>

\* The text saveGarden passes to localStorage.setItem.
savedText == JSONstringify(gardenData(gardenPath, plants, pots))

\* saveGarden: the text goes to localStorage; the planner is left as it is.
saveGarden ==
    /\ UNCHANGED vars

\* A load that assigns the collections inside the handler.
loadGardenSync(file) ==
    /\ file.kind = "object"
    /\ gardenPath' = Get(file, "gardenPath")
    /\ plants' = Get(file, "plants")
    /\ pots' = Get(file, "pots")
    /\ UNCHANGED <<currentLineStart, currentTool, readers,
                   lockCalled, position>>

\* loadGarden with a file selected: a FileReader is created and the read is
\* started; nothing else happens in the handler.
loadGarden(file) ==
    /\ Len(readers) < MaxReaders
    /\ readers' = Append(readers, file)
    /\ UNCHANGED <<gardenPath, plants, pots, currentLineStart, currentTool,
                   lockCalled, position>>

\* loadGarden with no file selected.
loadGardenNoFile ==
    /\ UNCHANGED vars

\* The pending reads without the i-th.
RemoveAt(s, i) == [j \in 1..(Len(s) - 1) |-> IF j < i THEN s[j] ELSE s[j + 1]]

\* An onload that catches the parse error and empties the layout.
readerOnloadCatch(i) ==
    /\ LET text == readers[i] IN
       IF text.kind # "object"
       THEN /\ gardenPath' = <<>>
            /\ plants' = <<>>
            /\ pots' = <<>>
       ELSE /\ gardenPath' = Get(text, "gardenPath")
            /\ plants' = Get(text, "plants")
            /\ pots' = Get(text, "pots")
    /\ readers' = RemoveAt(readers, i)
    /\ UNCHANGED <<currentLineStart, currentTool, lockCalled,
                   position>>

\* An onload that adds the file's plants to the present ones.
readerOnloadMerge(i) ==
    /\ LET text == readers[i] IN
       IF text.kind # "object"
       THEN UNCHANGED <<gardenPath, plants, pots>>
       ELSE /\ gardenPath' = Get(text, "gardenPath")
            /\ plants' = IF plants = Undefined \/ Get(text, "plants") = Undefined
                         THEN Get(text, "plants")
                         ELSE plants \o Get(text, "plants")
            /\ pots' = Get(text, "pots")
    /\ readers' = RemoveAt(readers, i)
    /\ UNCHANGED <<currentLineStart, currentTool, lockCalled,
                   position>>

\* reader.onload of the i-th pending reader.  JSON.parse throws on an
\* unparseable text before any assignment.
readerOnload(i) ==
    /\ LET text == readers[i] IN
       IF text.kind # "object"
       THEN UNCHANGED <<gardenPath, plants, pots>>
       ELSE /\ gardenPath' = Get(text, "gardenPath")
            /\ plants' = Get(text, "plants")
            /\ pots' = Get(text, "pots")
    /\ readers' = RemoveAt(readers, i)
    /\ UNCHANGED <<currentLineStart, currentTool, lockCalled,
                   position>>

\* A mode change that also drops the open drag.
setModeCancelDrag(tool) ==
    /\ currentTool' = tool
    /\ currentLineStart' = Null
    /\ UNCHANGED <<gardenPath, plants, pots, readers, lockCalled, position>>

setMode(tool) ==
    /\ currentTool' = tool
    /\ UNCHANGED <<gardenPath, plants, pots, currentLineStart,
                   readers, lockCalled, position>>

lockGarden ==
    /\ currentTool' = "locked"
    /\ lockCalled' = TRUE
    /\ UNCHANGED <<gardenPath, plants, pots, currentLineStart,
                   readers, position>>

(* ------------------------- next-state relation ------------------------- *)
MouseDown == \E p \in MousePositions : startDrawing(p)
MouseMove == \E p \in MousePositions : draw(p)
MouseUp == \E p \in MousePositions : stopDrawing(p)
SetMode == \E t \in Tools : setMode(t)
LoadRequest == \E f \in Files : loadGarden(f)
LoadComplete == \E i \in 1..Len(readers) : readerOnload(i)

Next ==
    \/ MouseDown
    \/ MouseMove
    \/ MouseUp
    \/ SetMode
    \/ lockGarden
    \/ saveGarden
    \/ LoadRequest
    \/ loadGardenNoFile
    \/ LoadComplete

Spec == Init /\ [][Next]_vars

(* ------------------------- runs without a load ------------------------ *)
\* The events of a session in which no file is ever selected.
NoLoadNext ==
    \/ MouseDown
    \/ MouseMove
    \/ MouseUp
    \/ SetMode
    \/ lockGarden
    \/ saveGarden
    \/ loadGardenNoFile

NoLoadSpec == Init /\ [][NoLoadNext]_vars

(* ------------------------- snapToGrid on a range ----------------------- *)
\* The inputs of the snapToGrid check: every integer position of a square
\* around the origin, negative coordinates and half-way values included.
SnapPositions ==
    {Point(px, py) : px \in -SnapRange..SnapRange, py \in -SnapRange..SnapRange}

SnapInit ==
    /\ gardenPath = <<>>
    /\ plants = <<>>
    /\ pots = <<>>
    /\ currentLineStart = Null
    /\ currentTool = "draw"
    /\ readers = <<>>
    /\ lockCalled = FALSE
    /\ position \in SnapPositions

\* One mousedown in draw mode at the chosen position.
SnapApply ==
    /\ currentLineStart = Null
    /\ startDrawing(position)

SnapSpec == SnapInit /\ [][SnapApply]_vars

(* ------------------------- helpers of the properties ------------------- *)
\* s is a prefix of t; an undefined collection is a prefix only of itself.
IsPrefix(s, t) ==
    IF s = Undefined \/ t = Undefined
    THEN s = t
    ELSE Len(s) <= Len(t) /\ SubSeq(t, 1, Len(s)) = s

\* The edge from a to b crosses the horizontal ray going right from p.
Crosses(p, a, b) ==
    /\ (a.y > p.y) # (b.y > p.y)
    /\ IF b.y > a.y
       THEN (p.x - a.x) * (b.y - a.y) < (b.x - a.x) * (p.y - a.y)
       ELSE (p.x - a.x) * (b.y - a.y) > (b.x - a.x) * (p.y - a.y)

\* p lies inside the closed polygon through the points of path (even-odd).
Inside(p, path) ==
    /\ path # Undefined
    /\ Len(path) >= 3
    /\ LET n == Len(path)
           crossing == {i \in 1..n : Crosses(p, path[i], path[(i % n) + 1])}
       IN  Cardinality(crossing) % 2 = 1

\* The JSON text has all three keys.
HasAllKeys(text) ==
    text.kind = "object" /\ DOMAIN text.members = {"gardenPath", "plants", "pots"}

\* This step is the completion of the i-th pending read.
Completes(i) ==
    /\ i \in 1..Len(readers)
    /\ Len(readers') < Len(readers)
    /\ readers' = RemoveAt(readers, i)

Abs(n) == IF n < 0 THEN -n ELSE n

(* ------------------------- properties ---------------------------------- *)

\* C1: once lockGarden has been called, no step other than the completion of
\* a load changes gardenPath.
C1_LockFreezesBoundary ==
    [][(lockCalled /\ ~LoadComplete) => gardenPath' = gardenPath]_vars

\* C2: a mousedown adds a pot or a plant only if lockGarden has been called
\* and the clicked point lies inside the closed polygon of gardenPath.
C2_PlacementOnlyInsideLockedBoundary ==
    [][\A p \in MousePositions :
          (startDrawing(p) /\ (plants' # plants \/ pots' # pots))
              => (lockCalled /\ Inside(p, gardenPath))]_vars

\* Loading the text that saveGarden writes for the current state gives back
\* the current gardenPath, plants and pots.
RoundTrip ==
    /\ savedText.kind = "object"
    /\ Get(savedText, "gardenPath") = gardenPath
    /\ Get(savedText, "plants") = plants
    /\ Get(savedText, "pots") = pots

C4_AbsentKeyLoadsEmpty ==
    [][\A i \in 1..Len(readers) :
          (/\ Completes(i)
           /\ readers[i].kind = "object"
           /\ "plants" \notin DOMAIN readers[i].members
           /\ {"gardenPath", "pots"} \subseteq DOMAIN readers[i].members)
              => /\ plants' = <<>>
                 /\ gardenPath' = readers[i].members.gardenPath
                 /\ pots' = readers[i].members.pots
                 /\ ~RedrawThrows(gardenPath', plants', pots')]_vars

\* m is a multiple of gridSize and no multiple of gridSize is closer to c.
NearestMultiple(c, m) == m % gridSize = 0 /\ 2 * Abs(m - c) <= gridSize

\* C5: snapToGrid maps each coordinate, x and y independently, to a nearest
\* multiple of gridSize.
C5_SnapNearestMultiple ==
    currentLineStart # Null
        => /\ NearestMultiple(position.x, currentLineStart.x)
           /\ NearestMultiple(position.y, currentLineStart.y)

\* C5 witness: a negative half-way x and a positive half-way y were snapped.
C5_Witness ==
    /\ currentLineStart # Null
    /\ position = Point(-10, 30)

C7_NoEventBeforeReplacement ==
    [][readers # <<>> => LoadComplete]_vars

\* C7 (amended): loadGarden itself changes none of the three collections and
\* only starts a read; the collections take the file's values in the later
\* onload step, all three together, or none when the text does not parse.
C7_LoadDeferredAndAtomic ==
    [][/\ LoadRequest => /\ UNCHANGED <<gardenPath, plants, pots>>
                         /\ Len(readers') = Len(readers) + 1
       /\ \A i \in 1..Len(readers) :
             Completes(i) =>
                 IF readers[i].kind = "object"
                 THEN /\ gardenPath' = Get(readers[i], "gardenPath")
                      /\ plants' = Get(readers[i], "plants")
                      /\ pots' = Get(readers[i], "pots")
                 ELSE UNCHANGED <<gardenPath, plants, pots>>]_vars

\* C7 witness: a read is pending while the layout holds what clicks made
\* (a plant placed by mousedown, nothing of the file).
C7_Witness ==
    /\ readers = <<FileFull>>
    /\ gardenPath = <<>>
    /\ plants = <<[x |-> 10, y |-> 10, type |-> "Rose"]>>

\* C8: the record a plant-tool mousedown appends has exactly the fields x, y,
\* type, waterNeeds, sunlight and spacing, with spacing 30.
C8_PlantRecordShape ==
    [][\A p \in MousePositions :
          (startDrawing(p) /\ currentTool = "plant" /\ plants' # plants)
              => LET r == plants'[Len(plants')]
                 IN  /\ DOMAIN r = {"x", "y", "type", "waterNeeds",
                                    "sunlight", "spacing"}
                     /\ r.spacing = 30]_vars

\* C9: in the state right after the load of a file with all three keys
\* completes, the three collections are exactly the file's lists.
C9_LoadReplaces ==
    [][\A i \in 1..Len(readers) :
          (Completes(i) /\ HasAllKeys(readers[i]))
              => /\ gardenPath' = readers[i].members.gardenPath
                 /\ plants' = readers[i].members.plants
                 /\ pots' = readers[i].members.pots]_vars

\* C9 witness: the layout is the file's, and a drag started before the load
\* completed is still open (its press point is gone from gardenPath).
C9_Witness ==
    /\ readers = <<>>
    /\ gardenPath = FilePath
    /\ plants = FilePlants
    /\ pots = FilePots
    /\ currentLineStart # Null

\* C10: in every step in which a mousedown or a mouseup changes gardenPath,
\* currentTool is 'draw' when the event is handled.
C10_BoundaryEditedOnlyInDrawMode ==
    [][((MouseDown \/ MouseUp) /\ gardenPath' # gardenPath)
           => currentTool = "draw"]_vars

\* The record a plant-tool mousedown at p is said to append.
RoseAt(p) == [x |-> p.x, y |-> p.y, type |-> "Rose"]

\* C11: a mousedown with the plant tool appends exactly one plant
\* {x, y, type 'Rose'} at the raw position and leaves gardenPath, pots,
\* currentLineStart and currentTool as they are; with the pot tool it appends
\* exactly one pot at the raw position and leaves gardenPath, plants,
\* currentLineStart and currentTool as they are; with the locked tool it
\* changes nothing.
C11_MouseDownFrame ==
    \A p \in MousePositions :
        /\ (currentTool = "plant" /\ ENABLED startDrawing(p))
               => ENABLED (/\ startDrawing(p)
                           /\ plants' = Append(plants, RoseAt(p))
                           /\ UNCHANGED <<gardenPath, pots, currentLineStart,
                                          currentTool>>)
        /\ (currentTool = "pot" /\ ENABLED startDrawing(p))
               => ENABLED (/\ startDrawing(p)
                           /\ pots' = Append(pots, Point(p.x, p.y))
                           /\ UNCHANGED <<gardenPath, plants, currentLineStart,
                                          currentTool>>)
        /\ currentTool = "locked"
               => ENABLED (/\ startDrawing(p)
                           /\ UNCHANGED <<gardenPath, plants, pots,
                                          currentLineStart, currentTool>>)

\* C12 (as stated): with no load, gardenPath has even length whenever no drag
\* is in progress, and currentLineStart, when set, is the last element of
\* gardenPath.
C12_DragPairs ==
    /\ currentLineStart = Null => Len(gardenPath) % 2 = 0
    /\ currentLineStart # Null
           => /\ gardenPath # <<>>
              /\ currentLineStart = gardenPath[Len(gardenPath)]

\* C12 (amended): as long as no load has completed, currentLineStart, when
\* set, is the last element of gardenPath, and a mouseup of an open drag
\* appends the snapped release position and clears currentLineStart; the
\* length of gardenPath may be odd with no drag in progress.
C12_LineStartIsLast ==
    /\ currentLineStart # Null
           => /\ gardenPath # <<>>
              /\ currentLineStart = gardenPath[Len(gardenPath)]
    /\ \A p \in MousePositions :
          (currentLineStart # Null /\ ENABLED stopDrawing(p))
              => ENABLED (/\ stopDrawing(p)
                          /\ gardenPath' = Append(gardenPath, snapToGrid(p))
                          /\ currentLineStart' = Null)

\* C12 witness: two mousedowns with no mouseup between them; the second press
\* point is the line start.
C12_Witness ==
    /\ Len(gardenPath) = 2
    /\ currentLineStart = Point(40, 20)
    /\ gardenPath[1] = Point(20, 20)

\* C13: with no load, both coordinates of every point of gardenPath are
\* multiples of gridSize.
C13_PathOnGrid ==
    \A i \in 1..Len(gardenPath) :
        /\ gardenPath[i].x % gridSize = 0
        /\ gardenPath[i].y % gridSize = 0

\* C13 witness: a press at (10,10) and a release at (47,28) are both in
\* gardenPath, snapped.
C13_Witness ==
    /\ gardenPath = <<Point(20, 20), Point(40, 20)>>
    /\ currentLineStart = Null

\* C14: the completion of a read whose text does not parse leaves gardenPath,
\* plants, pots, currentTool and currentLineStart as they were.
C14_FailedLoadChangesNothing ==
    [][\A i \in 1..Len(readers) :
          (Completes(i) /\ readers[i].kind # "object")
              => UNCHANGED <<gardenPath, plants, pots, currentTool,
                             currentLineStart>>]_vars

\* C14 witness: the read of an unparseable file is pending over a layout
\* with a boundary point, a plant, a pot and an open drag.
C14_Witness ==
    /\ readers = <<Malformed>>
    /\ gardenPath # Undefined /\ Len(gardenPath) >= 1
    /\ plants # Undefined /\ Len(plants) >= 1
    /\ pots # Undefined /\ Len(pots) >= 1
    /\ currentLineStart # Null

\* C15: mousemove, saveGarden and loadGarden with no file leave gardenPath,
\* plants, pots, currentTool and currentLineStart unchanged; setMode and
\* lockGarden leave gardenPath, plants, pots and currentLineStart unchanged.
C15_NonEditingFrame ==
    [][/\ (MouseMove \/ saveGarden \/ loadGardenNoFile)
           => UNCHANGED <<gardenPath, plants, pots, currentTool,
                          currentLineStart>>
       /\ (SetMode \/ lockGarden)
           => UNCHANGED <<gardenPath, plants, pots, currentLineStart>>]_vars

\* C15 witness: the garden was locked during an open drag, over a layout
\* with a plant; the drag and the layout are still there.
C15_Witness ==
    /\ currentTool = "locked"
    /\ currentLineStart # Null
    /\ gardenPath # Undefined /\ Len(gardenPath) >= 1
    /\ plants # Undefined /\ Len(plants) >= 1

====
